---- MODULE Spec2Model ----
(***************************************************************************)
(* Model of final_export.py: the vocabulary analyzer that reads a manifest *)
(* of transcript segments, extracts the unique words and labels every word *)
(* by dictionary lookup followed by a Levenshtein distance <= 1 scan.      *)
(*                                                                         *)
(* A Python str is modelled as a sequence of code points (integers).       *)
(* A Python set is modelled as a set; it may yield its entries in any      *)
(* order.                                                                  *)
(***************************************************************************)
EXTENDS Integers, Sequences, FiniteSets, TLC

VARIABLES
    pc,               \* position of main(): main_exists, guv_open, guv_read,
                      \* loop, classify, done, crashed (idle: main not running)
    fs,               \* the manifest on disk: "present" or "missing"
    lines_read,       \* lines of the manifest consumed by `for line in f`
    words,            \* local `words` of get_unique_vocabulary
    all_unique_words, \* main's all_unique_words
    pending,          \* elements of all_unique_words the for loop has not visited
    results,          \* main's results list
    correct_count,    \* main's correct_count
    csv_written,      \* whether final_word_list.csv has been written
    csv_rows,         \* rows of final_word_list.csv
    stdout,           \* messages printed, oldest first
    CORRECT_WORDS,    \* the module-level reference set (classify_word's correct_set)
    c_pc,             \* position inside classify_word: idle, lookup, scan,
                      \* after_scan, returned
    word,             \* classify_word's parameter `word`
    correct_word,     \* classify_word's loop variable (Unbound: never assigned)
    n_examined,       \* entries the for loop of classify_word has examined
    is_typo,          \* classify_word's local is_typo
    ret,              \* value returned by classify_word ("None": nothing yet)
    s1, s2,           \* arguments of a direct call of distance
    d12, d21          \* distance(s1, s2) and distance(s2, s1); -1: not computed

vars == << pc, fs, lines_read, words, all_unique_words, pending, results,
           correct_count, csv_written, csv_rows, stdout, CORRECT_WORDS,
           c_pc, word, correct_word, n_examined, is_typo, ret,
           s1, s2, d12, d21 >>

mainVars == << pc, fs, lines_read, words, all_unique_words, pending, results,
               correct_count, csv_written, csv_rows, stdout >>
callVars == << c_pc, word, correct_word, n_examined, is_typo, ret >>
distVars == << s1, s2, d12, d21 >>

(***************************************************************************)
(* Bounds of the model.                                                    *)
(***************************************************************************)
MaxLen == 2      \* longest word / vocabulary entry drawn as an input
MaxVocab == 2    \* largest vocabulary drawn as an input
MaxPermuted == 3 \* largest set whose iteration orders are listed one by one

\* Code points the input words are built from: DEVANAGARI KA and MA.
Alphabet == {2325, 2350}

RECURSIVE SeqsOfLen(_, _)
SeqsOfLen(S, n) ==
    IF n = 0 THEN { <<>> }
    ELSE { Append(s, c) : s \in SeqsOfLen(S, n - 1), c \in S }

SeqsUpTo(S, n) == UNION { SeqsOfLen(S, k) : k \in 0..n }

Strings == SeqsUpTo(Alphabet, MaxLen)

Vocabularies == { V \in SUBSET Strings : Cardinality(V) <= MaxVocab }

Range(s) == { s[i] : i \in DOMAIN s }

Min2(x, y) == IF x <= y THEN x ELSE y

(***************************************************************************)
(* Levenshtein.distance(s1, s2, weights=(insertion, deletion,              *)
(* substitution)): the least total cost of the insertions, deletions and   *)
(* substitutions of single code points that turn a into b, computed row by *)
(* row (Wagner-Fischer).  Element j+1 of a row is the cost of turning the  *)
(* consumed prefix of a into the first j code points of b.  A row is bound *)
(* to a name once it is built (cur \in {...}, nxt \in {...}).              *)
(***************************************************************************)
\* The row of the empty prefix of a: j insertions.
FirstRow(n, ins) == [j \in 1..(n + 1) |-> (j - 1) * ins]

\* The first j elements of the row that follows prev when a gives ch.
RECURSIVE FillRow(_, _, _, _, _, _, _)
FillRow(prev, ch, b, j, ins, del, sub) ==
    IF j = 1 THEN << prev[1] + del >>
    ELSE CHOOSE row \in
           { Append(cur,
                    Min2(Min2(prev[j] + del, cur[j - 1] + ins),
                         prev[j - 1] + (IF ch = b[j - 1] THEN 0 ELSE sub)))
               : cur \in { FillRow(prev, ch, b, j - 1, ins, del, sub) } }
           : TRUE

\* The row reached from prev once all of a is consumed.
RECURSIVE LastRow(_, _, _, _, _, _)
LastRow(a, b, prev, ins, del, sub) ==
    IF a = <<>> THEN prev
    ELSE CHOOSE row \in
           { LastRow(Tail(a), b, nxt, ins, del, sub)
               : nxt \in { FillRow(prev, Head(a), b, Len(b) + 1, ins, del, sub) } }
           : TRUE

weighted_distance(a, b, ins, del, sub) ==
    LastRow(a, b, FirstRow(Len(b), ins), ins, del, sub)[Len(b) + 1]

\* A distance whose insertions cost twice as much as deletions.
distance_costly_insert(a, b) == weighted_distance(a, b, 2, 1, 1)

\* A distance that counts nothing for the code points left over in b once a
\* is empty.
distance_free_tail(a, b) ==
    IF a = <<>> THEN 0 ELSE weighted_distance(a, b, 1, 1, 1)

\* distance(word, correct_word): unit cost insertions, deletions, substitutions.
distance(a, b) == weighted_distance(a, b, 1, 1, 1)

(***************************************************************************)
(* classify_word                                                           *)
(***************************************************************************)
MAX_EDIT_DISTANCE == 1

CORRECT_SPELLING == "correct spelling"
INCORRECT_SPELLING == "incorrect spelling"

\* A lookup that also accepts every word a previous call has been made for.
in_dictionary_or_seen(w, correct_set) ==
    w \in correct_set \/ \E i \in DOMAIN results : results[i].Unique_Word = w

\* A lookup that never succeeds.
in_dictionary_never(w, correct_set) == FALSE

\* `if word in correct_set`
in_dictionary(w, correct_set) == w \in correct_set

\* `if distance(word, correct_word) <= MAX_EDIT_DISTANCE`
within_edit_distance(w, entry) ==
    distance(w, entry) <= MAX_EDIT_DISTANCE

\* A loop without the break: every entry the set yields is examined.
examined_no_break(w, order) == order

\* The entries `for correct_word in correct_set` examines when the set
\* yields them in the given order: the loop is left (`break`) at the first
\* entry within the edit distance, which is the last one examined.
RECURSIVE examined(_, _)
examined(w, order) ==
    IF order = <<>> THEN <<>>
    ELSE IF within_edit_distance(w, Head(order)) THEN << Head(order) >>
    ELSE << Head(order) >> \o examined(w, Tail(order))

\* is_typo after the loop: set to True by an examined entry within the
\* edit distance, False otherwise.
typo_found(w, seen) ==
    \E i \in DOMAIN seen : within_edit_distance(w, seen[i])

\* The value of a local that has not been assigned: no str has this form.
Unbound == << -1 >>

\* The locals the loop ends with when it has examined the entries of seen:
\* the loop variable holds the last of them.
scan_result(w, seen) ==
    [ correct_word |-> IF seen = <<>> THEN Unbound ELSE seen[Len(seen)],
      n_examined |-> Len(seen),
      is_typo |-> typo_found(w, seen) ]

\* The orders a set may yield its entries in: all of them.  The order of a
\* Python set depends on the hashes of its entries, which change from
\* process to process.
RECURSIVE AllOrders(_)
AllOrders(S) ==
    IF S = {} THEN { <<>> }
    ELSE UNION { { << x >> \o q : q \in AllOrders(S \ {x}) } : x \in S }

\* The results of the loop over all the orders of a set too large to list
\* them.  With no entry within the edit distance every entry is examined
\* and any of them is the last; otherwise the loop is left at an entry
\* within the edit distance, any of them, after k of the others, for any k.
scan_results_any_order(w, correct_set) ==
    LET near == { v \in correct_set : within_edit_distance(w, v) }
        others == correct_set \ near
    IN IF correct_set = {}
       THEN { scan_result(w, <<>>) }
       ELSE IF near = {}
       THEN { [ correct_word |-> v, n_examined |-> Cardinality(correct_set),
                is_typo |-> FALSE ] : v \in correct_set }
       ELSE { [ correct_word |-> v, n_examined |-> k + 1, is_typo |-> TRUE ]
                : v \in near, k \in 0..Cardinality(others) }

\* The results `for correct_word in correct_set: ...` may end with.
scan_results(w, correct_set) ==
    IF Cardinality(correct_set) <= MaxPermuted
    THEN { scan_result(w, seen) :
             seen \in { examined(w, order) : order \in AllOrders(correct_set) } }
    ELSE scan_results_any_order(w, correct_set)

\* A tail that labels the probable typos as correct.
return_label_typo_correct(typo) ==
    IF typo THEN CORRECT_SPELLING ELSE INCORRECT_SPELLING

\* A tail that labels the remaining out-of-vocabulary words as correct.
return_label_default_correct(typo) ==
    IF typo THEN INCORRECT_SPELLING ELSE CORRECT_SPELLING

\* A tail without the final return: the function falls off its end.
return_label_no_default(typo) ==
    IF typo THEN INCORRECT_SPELLING ELSE "None"

\* `if is_typo: return "incorrect spelling"` followed by the default return.
return_label(typo) ==
    IF typo THEN INCORRECT_SPELLING ELSE INCORRECT_SPELLING

\* A classifier that adds the words it has seen to the reference set.
correct_set_after_learning(w, correct_set) == correct_set \cup {w}

\* The reference set after a call: classify_word only reads correct_set
\* (`in` and `for`), it never adds or removes an entry.
correct_set_after(w, correct_set) == correct_set

\* Entry of classify_word(w, CORRECT_WORDS).
CW_Call(w) ==
    /\ word' = w
    /\ c_pc' = "lookup"
    /\ correct_word' = Unbound
    /\ n_examined' = 0
    /\ is_typo' = FALSE
    /\ ret' = "None"

\* 1. Direct dictionary lookup; `is_typo = False` when it fails.
CW_Lookup ==
    /\ c_pc = "lookup"
    /\ IF in_dictionary(word, CORRECT_WORDS)
       THEN /\ ret' = CORRECT_SPELLING
            /\ c_pc' = "returned"
            /\ CORRECT_WORDS' = correct_set_after(word, CORRECT_WORDS)
       ELSE /\ c_pc' = "scan"
            /\ UNCHANGED << ret, CORRECT_WORDS >>
    /\ is_typo' = FALSE
    /\ UNCHANGED << word, correct_word, n_examined >>
    /\ UNCHANGED mainVars
    /\ UNCHANGED distVars

\* 2. `for correct_word in correct_set: if distance(...) <= 1: is_typo =
\* True; break`, the whole loop.
CW_Scan ==
    /\ c_pc = "scan"
    /\ \E r \in scan_results(word, CORRECT_WORDS) :
          /\ correct_word' = r.correct_word
          /\ n_examined' = r.n_examined
          /\ is_typo' = r.is_typo
    /\ c_pc' = "after_scan"
    /\ UNCHANGED << word, ret, CORRECT_WORDS >>
    /\ UNCHANGED mainVars
    /\ UNCHANGED distVars

\* `if is_typo: return ...` and the default return.
CW_Return ==
    /\ c_pc = "after_scan"
    /\ ret' = return_label(is_typo)
    /\ c_pc' = "returned"
    /\ CORRECT_WORDS' = correct_set_after(word, CORRECT_WORDS)
    /\ UNCHANGED << word, correct_word, n_examined, is_typo >>
    /\ UNCHANGED mainVars
    /\ UNCHANGED distVars

(***************************************************************************)
(* Values of the variables of a part of the program that is not running.   *)
(***************************************************************************)
MainIdle ==
    /\ pc = "idle"
    /\ fs = "present"
    /\ lines_read = 0
    /\ words = {}
    /\ all_unique_words = {}
    /\ pending = {}
    /\ results = <<>>
    /\ correct_count = 0
    /\ csv_written = FALSE
    /\ csv_rows = <<>>
    /\ stdout = <<>>

CallIdle ==
    /\ c_pc = "idle"
    /\ word = <<>>
    /\ correct_word = Unbound
    /\ n_examined = 0
    /\ is_typo = FALSE
    /\ ret = "None"

DistIdle ==
    /\ s1 = <<>>
    /\ s2 = <<>>
    /\ d12 = -1
    /\ d21 = -1

(***************************************************************************)
(* SpecCall: one call classify_word(word, correct_set) on any word and any *)
(* vocabulary within the bounds.                                           *)
(***************************************************************************)
InitCall ==
    /\ MainIdle
    /\ DistIdle
    /\ CORRECT_WORDS \in Vocabularies
    /\ word \in Strings
    /\ c_pc = "lookup"
    /\ correct_word = Unbound
    /\ n_examined = 0
    /\ is_typo = FALSE
    /\ ret = "None"

NextCall == CW_Lookup \/ CW_Scan \/ CW_Return

SpecCall == InitCall /\ [][NextCall]_vars

\* The interpreter runs a started call to its end.
SpecCallFair == SpecCall /\ WF_vars(NextCall)

(***************************************************************************)
(* SpecDistance: a direct call of distance on any two strings, in both     *)
(* argument orders.                                                        *)
(***************************************************************************)
InitDistance ==
    /\ MainIdle
    /\ CallIdle
    /\ CORRECT_WORDS = {}
    /\ s1 \in Strings
    /\ s2 \in Strings
    /\ d12 = -1
    /\ d21 = -1

\* distance(s1, s2)
D_Forward ==
    /\ d12 = -1
    /\ d12' = distance(s1, s2)
    /\ UNCHANGED << s1, s2, d21, CORRECT_WORDS >>
    /\ UNCHANGED mainVars
    /\ UNCHANGED callVars

\* distance(s2, s1): the same call with the arguments exchanged
D_Backward ==
    /\ d12 # -1
    /\ d21 = -1
    /\ d21' = distance(s2, s1)
    /\ UNCHANGED << s1, s2, d12, CORRECT_WORDS >>
    /\ UNCHANGED mainVars
    /\ UNCHANGED callVars

NextDistance == D_Forward \/ D_Backward

SpecDistance == InitDistance /\ [][NextDistance]_vars

(***************************************************************************)
(* SpecClassify: a caller that calls classify_word up to MaxCalls times,   *)
(* on any words in any order (a word may come again, after calls on other  *)
(* words), against one vocabulary, and appends every answer to results the *)
(* way the loop of main does.                                              *)
(***************************************************************************)
MaxCalls == 3    \* calls of classify_word the caller makes

\* The words the caller draws from: "", KA, KA MA, MA MA, KA MA MA.  Each
\* has another at distance 1 and another at distance 2 or more.
DriverWords ==
    { <<>>, << 2325 >>, << 2325, 2350 >>, << 2350, 2350 >>,
      << 2325, 2350, 2350 >> }

DriverVocabularies ==
    { V \in SUBSET DriverWords : Cardinality(V) <= MaxVocab }

InitClassify ==
    /\ MainIdle
    /\ DistIdle
    /\ CallIdle
    /\ CORRECT_WORDS \in DriverVocabularies

\* `classification = classify_word(word, CORRECT_WORDS)` for the next word.
Driver_Call ==
    /\ c_pc = "idle"
    /\ pc = "idle"
    /\ Len(results) < MaxCalls
    /\ \E w \in DriverWords : CW_Call(w)
    /\ UNCHANGED CORRECT_WORDS
    /\ UNCHANGED mainVars
    /\ UNCHANGED distVars

\* `results.append({"Unique Word": word, "Classification": classification})`
\* and the count of correct spellings; the locals of the call are gone.
Driver_Collect ==
    /\ c_pc = "returned"
    /\ pc = "idle"
    /\ results' = Append(results, [Unique_Word |-> word, Classification |-> ret])
    /\ correct_count' = IF ret = CORRECT_SPELLING
                        THEN correct_count + 1 ELSE correct_count
    /\ c_pc' = "idle"
    /\ correct_word' = Unbound
    /\ n_examined' = 0
    /\ is_typo' = FALSE
    /\ UNCHANGED << word, ret, CORRECT_WORDS >>
    /\ UNCHANGED << pc, fs, lines_read, words, all_unique_words, pending,
                    csv_written, csv_rows, stdout >>
    /\ UNCHANGED distVars

NextClassify ==
    \/ Driver_Call
    \/ CW_Lookup
    \/ CW_Scan
    \/ CW_Return
    \/ Driver_Collect

SpecClassify == InitClassify /\ [][NextClassify]_vars

(***************************************************************************)
(* get_unique_vocabulary: the text of a segment is cleaned of bracketed    *)
(* artifacts, split on runs of delimiters, and the pieces that are neither *)
(* empty nor a number are kept.                                            *)
(***************************************************************************)
\* Code points matched by \s and removed by str.strip().
Whitespace ==
    {9, 10, 11, 12, 13, 28, 29, 30, 31, 32, 133, 160, 5760}
        \cup (8192..8202) \cup {8232, 8233, 8239, 8287, 12288}

\* The class of word_splitter: \s . , ? ! DANDA EM-DASH - ELLIPSIS
SplitChars == Whitespace \cup {46, 44, 63, 33, 2404, 8212, 45, 8230}

\* The code points c with chr(c).isdigit(): the decimal digits of every
\* script and the superscript, subscript and circled digits (788 in all).
DigitChars ==
    {185, 8304, 9450, 9471} \cup (48..57) \cup (178..179) \cup (1632..1641)
        \cup (1776..1785) \cup (1984..1993) \cup (2406..2415)
        \cup (2534..2543) \cup (2662..2671) \cup (2790..2799)
        \cup (2918..2927) \cup (3046..3055) \cup (3174..3183)
        \cup (3302..3311) \cup (3430..3439) \cup (3558..3567)
        \cup (3664..3673) \cup (3792..3801) \cup (3872..3881)
        \cup (4160..4169) \cup (4240..4249) \cup (4969..4977)
        \cup (6112..6121) \cup (6160..6169) \cup (6470..6479)
        \cup (6608..6618) \cup (6784..6793) \cup (6800..6809)
        \cup (6992..7001) \cup (7088..7097) \cup (7232..7241)
        \cup (7248..7257) \cup (8308..8313) \cup (8320..8329)
        \cup (9312..9320) \cup (9332..9340) \cup (9352..9360)
        \cup (9461..9469) \cup (10102..10110) \cup (10112..10120)
        \cup (10122..10130) \cup (42528..42537) \cup (43216..43225)
        \cup (43264..43273) \cup (43472..43481) \cup (43504..43513)
        \cup (43600..43609) \cup (44016..44025) \cup (65296..65305)
        \cup (66720..66729) \cup (68160..68163) \cup (68912..68921)
        \cup (69216..69224) \cup (69714..69722) \cup (69734..69743)
        \cup (69872..69881) \cup (69942..69951) \cup (70096..70105)
        \cup (70384..70393) \cup (70736..70745) \cup (70864..70873)
        \cup (71248..71257) \cup (71360..71369) \cup (71472..71481)
        \cup (71904..71913) \cup (72016..72025) \cup (72784..72793)
        \cup (73040..73049) \cup (73120..73129) \cup (92768..92777)
        \cup (92864..92873) \cup (93008..93017) \cup (120782..120831)
        \cup (123200..123209) \cup (123632..123641) \cup (125264..125273)
        \cup (127232..127242) \cup (130032..130041)

\* Closing code point of the artifact opened by c: [..], (..), <..>
Closer(c) == IF c = 91 THEN 93 ELSE IF c = 40 THEN 41 ELSE 62

SubSeqFrom(s, i) == SubSeq(s, i, Len(s))

\* re.sub(r'\[.*?\]|\(.*?\)|\<.*?\>', ' ', text): from left to right, an
\* opener followed on the same line by its closer is replaced, up to the
\* nearest closer, by one space.
RECURSIVE remove_artifacts(_)
remove_artifacts(text) ==
    IF text = <<>> THEN <<>>
    ELSE LET c == Head(text)
             closers == { j \in 2..Len(text) : text[j] = Closer(c) }
             first == CHOOSE j \in closers : \A k \in closers : j <= k
         IN IF /\ c \in {91, 40, 60}
               /\ closers # {}
               /\ \A k \in 2..(first - 1) : text[k] # 10
            THEN << 32 >> \o remove_artifacts(SubSeqFrom(text, first + 1))
            ELSE << c >> \o remove_artifacts(Tail(text))

\* word_splitter.split(text): the pieces between the maximal runs of
\* delimiters; a delimiter at either end leaves an empty piece there.
RECURSIVE split_acc(_, _, _, _)
split_acc(text, cur, out, in_run) ==
    IF text = <<>> THEN Append(out, cur)
    ELSE IF Head(text) \in SplitChars
         THEN IF in_run
              THEN split_acc(Tail(text), cur, out, TRUE)
              ELSE split_acc(Tail(text), <<>>, Append(out, cur), TRUE)
         ELSE split_acc(Tail(text), Append(cur, Head(text)), out, FALSE)

split(text) == split_acc(text, <<>>, <<>>, FALSE)

\* word.strip()
RECURSIVE strip(_)
strip(w) ==
    IF w = <<>> THEN w
    ELSE IF Head(w) \in Whitespace THEN strip(Tail(w))
    ELSE IF w[Len(w)] \in Whitespace THEN strip(SubSeq(w, 1, Len(w) - 1))
    ELSE w

\* cleaned_word.isdigit()
isdigit(w) == w # <<>> /\ \A i \in DOMAIN w : w[i] \in DigitChars

\* The words one segment text adds to `words`.
line_words(text) ==
    { w \in { strip(p) : p \in Range(split(remove_artifacts(text))) } :
        w # <<>> /\ ~isdigit(w) }

(***************************************************************************)
(* Inputs of main: the lines of the manifest.                              *)
(***************************************************************************)
MaxItems == 3    \* pieces (words, a number, an artifact) per text
MaxLines == 1    \* lines of the manifest

\* The pieces a text is made of, each word followed by a delimiter: the
\* vocabulary word KA AA MA and a space, the same word without its vowel
\* sign (KA MA) and a danda, the number 12 and a comma, DIGIT ONE KA and a
\* hyphen, and the artifact "[KA]".
TextItems ==
    { << 2325, 2366, 2350, 32 >>, << 2325, 2350, 2404 >>, << 49, 50, 44 >>,
      << 49, 2325, 45 >>, << 91, 2325, 93 >> }

RECURSIVE Flatten(_)
Flatten(ss) == IF ss = <<>> THEN <<>> ELSE Head(ss) \o Flatten(Tail(ss))

Texts == { Flatten(ss) : ss \in SeqsUpTo(TextItems, MaxItems) }

\* A line holds a JSON object with a "text" string, a JSON object without
\* "text", or something json.loads / segment.get / re.sub raises on.
ManifestLines ==
    [kind : {"text"}, text : Texts]
        \cup { [kind |-> "notext", text |-> <<>>],
               [kind |-> "invalid", text |-> <<>>] }

\* The reference sets of the module, entry by entry in the order of the
\* source, each word as its code points.
HINDI_CORE_WORDS == {
    << 2348, 2366, 2340 >>,
    << 2361, 2379, 2340, 2366 >>,
    << 2325, 2367 >>,
    << 2332, 2344, 2332, 2366, 2340, 2367 >>,
    << 2346, 2376, 2360, 2366 >>,
    << 2354, 2379, 2327 >>,
    << 2342, 2375, 2326, 2344, 2366 >>,
    << 2341, 2366 >>,
    << 2309, 2348 >>,
    << 2309, 2330, 2381, 2331, 2366 >>,
    << 2325, 2366, 2352, 2339 >>,
    << 2332, 2368, 2357, 2344 >>,
    << 2360, 2361, 2368 >>,
    << 2325, 2367, 2340, 2366, 2348 >>,
    << 2360, 2381, 2325, 2370, 2354 >>,
    << 2313, 2343, 2352 >>,
    << 2313, 2344, 2381, 2361, 2375, 2306 >>,
    << 2313, 2344, 2325, 2379 >>,
    << 2330, 2366, 2361, 2367, 2319 >>,
    << 2325, 2369, 2331 >>,
    << 2350, 2376, 2350 >>,
    << 2342, 2375, 2358 >>,
    << 2349, 2366, 2352, 2340 >>,
    << 2330, 2366, 2361, 2340, 2375 >>,
    << 2357, 2361, 2366, 2306 >>,
    << 2340, 2352, 2347 >>,
    << 2325, 2366, 2350 >> }

CODE_SWITCHED_WORDS == {
    << 2346, 2381, 2352, 2379, 2332, 2375, 2325, 2381, 2335 >>,
    << 2319, 2352, 2367, 2351, 2366 >>,
    << 2319, 2335, 2368, 2335, 2381, 2351, 2370, 2337 >>,
    << 2350, 2376, 2344, 2375, 2332, 2352 >>,
    << 2335, 2375, 2325, 2381, 2344, 2379, 2354, 2377, 2332, 2368 >>,
    << 2311, 2306, 2335, 2352, 2344, 2375, 2335 >>,
    << 2325, 2306, 2346, 2381, 2351, 2370, 2335, 2352 >>,
    << 2337, 2375, 2335, 2366 >>,
    << 2347, 2366, 2311, 2354 >>,
    << 2325, 2350, 2375, 2306, 2335 >>,
    << 2354, 2376, 2346, 2335, 2377, 2346 >>,
    << 2360, 2381, 2335, 2370, 2337, 2375, 2306, 2335 >>,
    << 2335, 2381, 2352, 2376, 2347, 2367, 2325 >>,
    << 2335, 2377, 2346, 2367, 2325 >>,
    << 2325, 2381, 2354, 2366, 2360, 2375, 2360 >>,
    << 2311, 2350, 2381, 2346, 2381, 2352, 2370, 2357, 2350, 2375, 2306, 2335 >> }

(***************************************************************************)
(* main                                                                    *)
(***************************************************************************)
\* The file system: the manifest is removed by another process.  Once the
\* file is open its removal no longer changes what the program reads.
FS_Unlink ==
    /\ pc \in {"main_exists", "guv_open"}
    /\ fs = "present"
    /\ fs' = "missing"
    /\ UNCHANGED << pc, lines_read, words, all_unique_words, pending, results,
                    correct_count, csv_written, csv_rows, stdout >>
    /\ UNCHANGED CORRECT_WORDS
    /\ UNCHANGED callVars
    /\ UNCHANGED distVars

\* `if not Path(INPUT_MANIFEST_PATH).exists(): print(...); return`
Main_CheckExists ==
    /\ pc = "main_exists"
    /\ IF fs = "missing"
       THEN /\ stdout' = Append(stdout, "ERROR main: manifest not found")
            /\ pc' = "done"
       ELSE /\ pc' = "guv_open"
            /\ UNCHANGED stdout
    /\ UNCHANGED << fs, lines_read, words, all_unique_words, pending, results,
                    correct_count, csv_written, csv_rows >>
    /\ UNCHANGED CORRECT_WORDS
    /\ UNCHANGED callVars
    /\ UNCHANGED distVars

\* `words = set()` and `open(manifest_path)`; on FileNotFoundError the
\* handler prints and returns set(), and main goes on with that set.
GUV_Open ==
    /\ pc = "guv_open"
    /\ words' = {}
    /\ IF fs = "missing"
       THEN /\ stdout' = Append(Append(stdout,
                             "ERROR get_unique_vocabulary: manifest not found"),
                             "Starting classification")
            /\ all_unique_words' = {}
            /\ pending' = {}
            /\ pc' = "loop"
       ELSE /\ pc' = "guv_read"
            /\ UNCHANGED << stdout, all_unique_words, pending >>
    /\ UNCHANGED << fs, lines_read, results, correct_count, csv_written, csv_rows >>
    /\ UNCHANGED CORRECT_WORDS
    /\ UNCHANGED callVars
    /\ UNCHANGED distVars

\* One iteration of `for line in f`.
GUV_ReadLine ==
    /\ pc = "guv_read"
    /\ lines_read < MaxLines
    /\ \E line \in ManifestLines :
          IF line.kind = "invalid"
          THEN /\ pc' = "crashed"
               /\ UNCHANGED << lines_read, words >>
          ELSE /\ lines_read' = lines_read + 1
               /\ words' = words \cup line_words(line.text)
               /\ UNCHANGED pc
    /\ UNCHANGED << fs, all_unique_words, pending, results, correct_count,
                    csv_written, csv_rows, stdout >>
    /\ UNCHANGED CORRECT_WORDS
    /\ UNCHANGED callVars
    /\ UNCHANGED distVars

\* End of file: `return words`, then main prints the number of words.
GUV_Return ==
    /\ pc = "guv_read"
    /\ all_unique_words' = words
    /\ pending' = words
    /\ stdout' = Append(stdout, "Starting classification")
    /\ pc' = "loop"
    /\ UNCHANGED << fs, lines_read, words, results, correct_count,
                    csv_written, csv_rows >>
    /\ UNCHANGED CORRECT_WORDS
    /\ UNCHANGED callVars
    /\ UNCHANGED distVars

\* `for word in all_unique_words: classify_word(word, CORRECT_WORDS)`
Main_NextWord ==
    /\ pc = "loop"
    /\ \E w \in pending :
          /\ pending' = pending \ {w}
          /\ CW_Call(w)
    /\ pc' = "classify"
    /\ UNCHANGED << fs, lines_read, words, all_unique_words, results,
                    correct_count, csv_written, csv_rows, stdout >>
    /\ UNCHANGED CORRECT_WORDS
    /\ UNCHANGED distVars

\* `results.append(...)` and the count of correct spellings; the locals of
\* the call are gone.
Main_Collect ==
    /\ pc = "classify"
    /\ c_pc = "returned"
    /\ results' = Append(results, [Unique_Word |-> word, Classification |-> ret])
    /\ correct_count' = IF ret = CORRECT_SPELLING
                        THEN correct_count + 1 ELSE correct_count
    /\ c_pc' = "idle"
    /\ pc' = "loop"
    /\ correct_word' = Unbound
    /\ n_examined' = 0
    /\ is_typo' = FALSE
    /\ UNCHANGED << fs, lines_read, words, all_unique_words, pending,
                    csv_written, csv_rows, stdout >>
    /\ UNCHANGED << word, ret >>
    /\ UNCHANGED CORRECT_WORDS
    /\ UNCHANGED distVars

\* The loop is over: the rows are written to the CSV and the summary printed.
Main_WriteCsv ==
    /\ pc = "loop"
    /\ pending = {}
    /\ csv_rows' = results
    /\ csv_written' = TRUE
    /\ stdout' = Append(stdout, "Summary")
    /\ pc' = "done"
    /\ UNCHANGED << fs, lines_read, words, all_unique_words, pending, results,
                    correct_count >>
    /\ UNCHANGED CORRECT_WORDS
    /\ UNCHANGED callVars
    /\ UNCHANGED distVars

Init ==
    /\ pc = "main_exists"
    /\ fs \in {"present", "missing"}
    /\ lines_read = 0
    /\ words = {}
    /\ all_unique_words = {}
    /\ pending = {}
    /\ results = <<>>
    /\ correct_count = 0
    /\ csv_written = FALSE
    /\ csv_rows = <<>>
    /\ stdout = <<>>
    /\ CORRECT_WORDS = HINDI_CORE_WORDS \cup CODE_SWITCHED_WORDS
    /\ CallIdle
    /\ DistIdle

Next ==
    \/ FS_Unlink
    \/ Main_CheckExists
    \/ GUV_Open
    \/ GUV_ReadLine
    \/ GUV_Return
    \/ Main_NextWord
    \/ CW_Lookup
    \/ CW_Scan
    \/ CW_Return
    \/ Main_Collect
    \/ Main_WriteCsv

Spec == Init /\ [][Next]_vars

(***************************************************************************)
(* Properties                                                              *)
(***************************************************************************)
Labels == { CORRECT_SPELLING, INCORRECT_SPELLING }

\* Some entry of V is at Levenshtein distance at most 1 from w.
HasNeighbour(w, V) == \E v \in V : distance(w, v) <= 1

\* C1: a call on a word that is a member of the vocabulary returns the
\* correct-spelling label, also when other entries of the vocabulary lie
\* within edit distance 1 of the word.
C1_MemberIsCorrect ==
    (c_pc = "returned" /\ word \in CORRECT_WORDS) => ret = CORRECT_SPELLING

C1_Witness ==
    /\ c_pc = "returned"
    /\ word \in CORRECT_WORDS
    /\ \E v \in CORRECT_WORDS \ {word} : distance(word, v) = 1
    /\ ret = CORRECT_SPELLING

\* C2: a call on a word that is not in the vocabulary but has an entry at
\* distance exactly 1 returns the incorrect-spelling label.
C2_NeighbourIsIncorrect ==
    ( /\ c_pc = "returned"
      /\ word \notin CORRECT_WORDS
      /\ \E v \in CORRECT_WORDS : distance(word, v) = 1 )
        => ret = INCORRECT_SPELLING

C2_Witness ==
    /\ c_pc = "returned"
    /\ word \notin CORRECT_WORDS
    /\ \E v \in CORRECT_WORDS : distance(word, v) = 1
    /\ is_typo
    /\ ret = INCORRECT_SPELLING

\* C3: a call on a word that is not in the vocabulary and has no entry
\* within distance 1 returns the incorrect-spelling label; with the empty
\* vocabulary the scan finds nothing and every word is labelled incorrect.
C3_FarIsIncorrect ==
    /\ ( /\ c_pc = "returned"
         /\ word \notin CORRECT_WORDS
         /\ ~HasNeighbour(word, CORRECT_WORDS) )
           => ret = INCORRECT_SPELLING
    /\ (c_pc = "returned" /\ CORRECT_WORDS = {})
           => (~is_typo /\ ret = INCORRECT_SPELLING)

C3_Witness ==
    /\ c_pc = "returned"
    /\ CORRECT_WORDS # {}
    /\ word \notin CORRECT_WORDS
    /\ ~HasNeighbour(word, CORRECT_WORDS)
    /\ ~is_typo
    /\ ret = INCORRECT_SPELLING

\* C4: every call, on the empty word and on one-letter words too, comes to
\* its end and returns one of the two labels.
C4_Total == <>(c_pc = "returned" /\ ret \in Labels)

C4_Witness ==
    /\ c_pc = "returned"
    /\ word = <<>>
    /\ CORRECT_WORDS # {}
    /\ ret \in Labels

\* The label that depends on nothing but the word and the vocabulary.
LabelOf(w, V) == IF w \in V THEN CORRECT_SPELLING ELSE INCORRECT_SPELLING

\* C5: every call on a word against a vocabulary returns the same label:
\* calls on the same word in one run agree, whatever calls on other words
\* came before or in between and whatever order the entries were scanned
\* in, and the label is the one fixed by the word and the vocabulary alone,
\* so it is the same in every run and in every order of the calls.
C5_Deterministic ==
    /\ \A i \in DOMAIN results : \A j \in DOMAIN results :
          results[i].Unique_Word = results[j].Unique_Word
              => results[i].Classification = results[j].Classification
    /\ \A i \in DOMAIN results :
          results[i].Classification = LabelOf(results[i].Unique_Word, CORRECT_WORDS)
    /\ c_pc = "returned" => ret = LabelOf(word, CORRECT_WORDS)

\* A word outside the vocabulary is classified, then another word that gets
\* the other label, then the first word again.
C5_Witness ==
    /\ Len(results) = 3
    /\ results[1].Unique_Word = results[3].Unique_Word
    /\ results[2].Unique_Word # results[1].Unique_Word
    /\ results[1].Unique_Word \notin CORRECT_WORDS
    /\ Cardinality(CORRECT_WORDS) = 2
    /\ results[2].Classification = CORRECT_SPELLING
    /\ results[1].Classification = INCORRECT_SPELLING
    /\ results[3].Classification = INCORRECT_SPELLING

\* C6: in every state of a run of main the reference vocabulary is the
\* union of the two word sets it was built from.
C6_VocabularyImmutable ==
    CORRECT_WORDS = HINDI_CORE_WORDS \cup CODE_SWITCHED_WORDS

C6_Witness ==
    /\ pc = "done"
    /\ csv_written
    /\ Len(results) = 2
    /\ \E i \in DOMAIN results : results[i].Unique_Word \notin CORRECT_WORDS
    /\ CORRECT_WORDS = HINDI_CORE_WORDS \cup CODE_SWITCHED_WORDS

\* C7: the edit distance is symmetric: distance(a, b) = distance(b, a).
C7_Symmetric == (d12 # -1 /\ d21 # -1) => d12 = d21

C7_Witness ==
    /\ d12 # -1
    /\ d21 # -1
    /\ Len(s1) < Len(s2)
    /\ s1 # <<>>
    /\ d12 = d21
    /\ d12 = 2

\* C8: the distance from the empty string to s is the length of s, so the
\* empty word is within distance 1 of exactly the strings of length <= 1.
C8_EmptyToS ==
    (d12 # -1 /\ s1 = <<>>)
        => /\ d12 = Len(s2)
           /\ (d12 <= 1) <=> (Len(s2) <= 1)

C8_Witness ==
    /\ d12 # -1
    /\ s1 = <<>>
    /\ Len(s2) = 2
    /\ d12 = 2

\* Entries of V outside Levenshtein distance 1 of w.
NonNeighbours(w, V) == { v \in V : distance(w, v) > 1 }

\* C9: the scan stops at the first entry within distance 1 of the word (it
\* ends on such an entry, having examined before it only entries that are
\* not), and for a word outside the vocabulary it ends with is_typo true
\* exactly when the vocabulary has an entry within distance 1, in every
\* iteration order.
C9_ShortCircuit ==
    /\ is_typo =>
          /\ correct_word \in CORRECT_WORDS
          /\ distance(word, correct_word) <= 1
          /\ n_examined <= Cardinality(NonNeighbours(word, CORRECT_WORDS)) + 1
    /\ (c_pc \in {"after_scan", "returned"} /\ word \notin CORRECT_WORDS)
          => (is_typo <=> HasNeighbour(word, CORRECT_WORDS))

C9_Witness ==
    /\ c_pc = "after_scan"
    /\ is_typo
    /\ n_examined = 1
    /\ Cardinality(CORRECT_WORDS) = 2
    /\ distance(word, correct_word) = 1

\* The program has found the manifest missing.
ManifestMissed ==
    \E i \in DOMAIN stdout :
        stdout[i] \in { "ERROR main: manifest not found",
                        "ERROR get_unique_vocabulary: manifest not found" }

\* C10: once the manifest has been found missing, no empty set of words is
\* handed to the classification loop and no output file is written.
C10_MissingManifestFailsFast ==
    ManifestMissed => (pc \notin {"loop", "classify"} /\ ~csv_written)

====
